---- MODULE Spec2Model ----
(***************************************************************************)
(* A model of scripts/run.py, the benchmark harness: the two helpers       *)
(* mkdir and where, the process runner run/compile, and the script body    *)
(* (module-level resolution of sbt and java, then the __main__ block).     *)
(*                                                                         *)
(* The file system is a function from paths to entries; a path is a        *)
(* sequence of components and a file's content a sequence of bytes.  The   *)
(* external processes (sbt, java) are the environment: their exit status   *)
(* and their standard output are chosen nondeterministically.              *)
(***************************************************************************)
EXTENDS Integers, Sequences, FiniteSets, TLC

VARIABLES
    pc,       \* the statement of run.py that executes next
    environ,  \* os.environ's PATH: [set |-> BOOLEAN, value |-> string]
    files,    \* the regular files os.path.isfile sees (executables)
    sbt,      \* module variable sbt  (line 36)
    java,     \* module variable java (line 37)
    runs,     \* module variable runs (line 67), the repetition count
    fs,       \* the results tree: path -> entry
    fs0,      \* the results tree when the harness started (never changes)
    buildSbt, \* the content of build.sbt
    bench,    \* position of the loop "for bench in benchmarks"
    n,        \* loop variable n of "for n in xrange(runs)"
    result,   \* local variable result (line 87)
    running,  \* number of child processes alive
    trace,    \* what the harness has done so far, in order
    error     \* the exception that ended the harness, "" if none

vars == <<pc, environ, files, sbt, java, runs, fs, fs0, buildSbt, bench, n,
          result, running, trace, error>>

(***************************************************************************)
(* Bounds of the model.                                                    *)
(***************************************************************************)
NumBench == 2      \* how many entries of the benchmark list are modelled
MaxRuns == 2       \* largest repetition count
MaxLen == 2        \* length of a benchmark process's non-empty output
MaxPathLen == 3    \* longest value of PATH, in characters

(***************************************************************************)
(* Configuration (lines 39-68).                                            *)
(***************************************************************************)
AllBenchmarks ==
    << "bounce.BounceBenchmark", "brainfuck.BrainfuckBenchmark",
       "cd.CDBenchmark", "deltablue.DeltaBlueBenchmark",
       "gcbench.GCBenchBenchmark", "json.JsonBenchmark",
       "kmeans.KmeansBenchmark", "list.ListBenchmark",
       "mandelbrot.MandelbrotBenchmark", "nbody.NbodyBenchmark",
       "permute.PermuteBenchmark", "queens.QueensBenchmark",
       "richards.RichardsBenchmark", "sudoku.SudokuBenchmark",
       "tracer.TracerBenchmark" >>

benchmarks == SubSeq(AllBenchmarks, 1, NumBench)

scalaVersion == "2.11.12"

\* 'scalaVersion := "{}"'.format(scalaVersion), the line written to build.sbt
PinLine == <<"scalaVersion := ", scalaVersion>>

(***************************************************************************)
(* Values.                                                                 *)
(***************************************************************************)
None == <<"None">>            \* Python's None, as where returns it
KeyError == <<"KeyError">>    \* marks os.environ['PATH'] raising

\* the standard outputs a process may produce: nothing, or the MaxLen bytes
\* 1, 2, ...
Payloads == { <<>>, [i \in 1..MaxLen |-> i] }
ExitCodes == {0, 1}

Absent == [kind |-> "absent", data |-> <<>>]
Dir == [kind |-> "dir", data |-> <<>>]
File(d) == [kind |-> "file", data |-> d]

Digits == <<"0", "1", "2", "3", "4", "5", "6", "7", "8", "9">>
\* str(n) / '{}'.format(n) for a one-digit n
Str(k) == Digits[k + 1]

Unbound == <<"unbound">>      \* a variable not yet assigned

\* one entry of trace.  op is "pin" (build.sbt written), "run" (run(cmd)
\* called; arg is the command), "exit" (the child ended with code and out),
\* "open" or "write" (arg is the path of the file)
Ev(op, arg, code, out) == [op |-> op, arg |-> arg, code |-> code, out |-> out]

(***************************************************************************)
(* where(cmd), lines 17-27.                                                *)
(***************************************************************************)
pathsep == ":"
PathChars == {"a", "b", pathsep}
Commands == {"sbt", "java"}

\* s.split(sep): the pieces between the separators; ''.split(':') is ['']
RECURSIVE Split(_, _)
Split(s, sep) ==
    IF \E i \in 1..Len(s) : s[i] = sep
    THEN LET i == CHOOSE k \in 1..Len(s) :
                      s[k] = sep /\ \A j \in 1..(k - 1) : s[j] # sep
         IN  <<SubSeq(s, 1, i - 1)>> \o Split(SubSeq(s, i + 1, Len(s)), sep)
    ELSE <<s>>

\* os.path.join(p, cmd) for a directory p without a trailing slash
Join(p, cmd) == IF p = <<>> THEN <<cmd>> ELSE p \o <<"/", cmd>>

isfile(f) == f \in files

\* the for ... else of lines 22-27
RECURSIVE FirstMatch(_, _)
FirstMatch(paths, cmd) ==
    IF paths = <<>> THEN None
    ELSE IF isfile(Join(Head(paths), cmd)) THEN Join(Head(paths), cmd)
    ELSE FirstMatch(Tail(paths), cmd)

where(cmd) ==
    IF isfile(<<cmd>>) THEN <<cmd>>
    ELSE IF ~environ.set THEN KeyError
    ELSE FirstMatch(Split(environ.value, pathsep), cmd)

(***************************************************************************)
(* mkdir(path), lines 8-15, over os.makedirs and os.mkdir.                 *)
(***************************************************************************)
Parent(path) == SubSeq(path, 1, Len(path) - 1)
exists(f, path) == path = <<>> \/ f[path].kind # "absent"
isdir(f, path) == path = <<>> \/ f[path].kind = "dir"

\* os.mkdir: one directory, its parent must be a directory
os_mkdir(f, path) ==
    IF ~exists(f, Parent(path)) THEN [fs |-> f, errno |-> "ENOENT"]
    ELSE IF ~isdir(f, Parent(path)) THEN [fs |-> f, errno |-> "ENOTDIR"]
    ELSE IF exists(f, path) THEN [fs |-> f, errno |-> "EEXIST"]
    ELSE [fs |-> [f EXCEPT ![path] = Dir], errno |-> "OK"]

\* os.makedirs: create the missing ancestors first, then the leaf
RECURSIVE makedirs(_, _)
makedirs(f, path) ==
    LET head == Parent(path)
        pre == IF head # <<>> /\ ~exists(f, head)
               THEN makedirs(f, head)
               ELSE [fs |-> f, errno |-> "OK"]
    IN  IF pre.errno \notin {"OK", "EEXIST"} THEN pre
        ELSE os_mkdir(pre.fs, path)

\* variant: EEXIST is swallowed without the os.path.isdir test
mkdirNoIsdir(f, path) ==
    LET r == makedirs(f, path)
    IN  [fs |-> r.fs, raised |-> r.errno \notin {"OK", "EEXIST"}]

mkdir(f, path) ==
    LET r == makedirs(f, path)
    IN  IF r.errno = "OK" THEN [fs |-> r.fs, raised |-> FALSE]
        ELSE IF r.errno = "EEXIST" /\ isdir(r.fs, path)
             THEN [fs |-> r.fs, raised |-> FALSE]
        ELSE [fs |-> r.fs, raised |-> TRUE]

(***************************************************************************)
(* Paths of the results tree and the file operations of lines 88-89.       *)
(***************************************************************************)
ResultsRoot == <<"results">>
\* 'results/{}/'.format(bench)
BenchDir(b) == <<"results", b>>

\* variant: the index is left out of the file name
ResultFileZero(b, k) == <<"results", b, Str(0)>>

\* 'results/{}/{}'.format(bench, n)
ResultFile(b, k) == <<"results", b, Str(k)>>

BenchSet == { benchmarks[i] : i \in 1..NumBench }
Slots == { <<"results", b, Str(k)>> : b \in BenchSet, k \in 0..(MaxRuns - 1) }
Paths == {ResultsRoot} \cup { <<"results", b>> : b \in BenchSet } \cup Slots

\* variant: mode 'r+'/'a', an existing file keeps its content
OpenKeep(f, path) ==
    IF f[path].kind = "file" THEN f ELSE [f EXCEPT ![path] = File(<<>>)]

\* open(path, 'w+'): create the file, or truncate it to length 0
OpenTruncate(f, path) == [f EXCEPT ![path] = File(<<>>)]

\* write(data) at offset 0 of a file holding old
WriteAt(old, data) == data \o SubSeq(old, Len(data) + 1, Len(old))

(***************************************************************************)
(* run(cmd), lines 29-31, and the loops' bookkeeping.                      *)
(***************************************************************************)
\* Popen can start cmd[0]: a bare name is searched on PATH (execvp), a path
\* with a directory is used as it is; None is no string at all
Launchable(exe) ==
    IF exe = None THEN FALSE
    ELSE IF Len(exe) = 1
         THEN environ.set /\ FirstMatch(Split(environ.value, pathsep), exe[1]) # None
    ELSE isfile(exe)

\* variant: subprocess.call, which reports the status and never raises
StatusIgnored(code) == FALSE

\* subprocess.check_output raises CalledProcessError on a non-zero status
CheckOutputRaises(code) == code # 0

\* variant: xrange(runs + 1)
InRangeInclusive(k, r) == k <= r

\* n in xrange(runs)
InRange(k, r) == k < r

\* variant: the list walked from its end
BenchAtReversed(i) == benchmarks[NumBench + 1 - i]

\* the i-th value of "for bench in benchmarks"
BenchAt(i) == benchmarks[i]

compileCmd == <<"sbt", "compile">>

(***************************************************************************)
(* Initial states.                                                         *)
(***************************************************************************)
Fresh == [p \in Paths |-> Absent]
RootIsFile == [Fresh EXCEPT ![ResultsRoot] = File(<<>>)]
EmptyRoot == [Fresh EXCEPT ![ResultsRoot] = Dir]
BenchDirIsFile(b) == [EmptyRoot EXCEPT ![BenchDir(b)] = File(<<>>)]
\* the tree an earlier harness run left, every result file holding d
Earlier(d) ==
    [p \in Paths |-> IF p \in Slots THEN File(d) ELSE Dir]

InitialTrees ==
    {Fresh, RootIsFile, EmptyRoot}
        \cup { BenchDirIsFile(b) : b \in BenchSet }
        \cup { Earlier(d) : d \in Payloads }

RECURSIVE SeqsUpTo(_, _)
SeqsUpTo(S, k) ==
    IF k = 0 THEN {<<>>}
    ELSE LET shorter == SeqsUpTo(S, k - 1)
         IN  shorter \cup { Append(s, c) : s \in shorter, c \in S }

InitCommon ==
    /\ pc = "resolve_sbt"
    /\ sbt = Unbound
    /\ java = Unbound
    /\ fs0 = fs
    /\ buildSbt = <<>>
    /\ bench = 0
    /\ n = 0
    /\ result = <<>>
    /\ running = 0
    /\ trace = <<>>
    /\ error = ""

\* the harness: PATH unset or one directory, the tools in it or not
Init ==
    /\ environ \in { [set |-> FALSE, value |-> <<>>], [set |-> TRUE, value |-> <<"a">>] }
    /\ files \in SUBSET { Join(<<"a">>, c) : c \in Commands }
    /\ runs \in 0..MaxRuns
    /\ fs \in InitialTrees
    /\ InitCommon

\* where on its own: any PATH up to MaxPathLen characters, the tools in the
\* working directory, in a or in b
InitWhere ==
    /\ environ \in { [set |-> FALSE, value |-> <<>>] }
                     \cup { [set |-> TRUE, value |-> v] : v \in SeqsUpTo(PathChars, MaxPathLen) }
    /\ files \in SUBSET { Join(d, c) : d \in {<<>>, <<"a">>, <<"b">>}, c \in Commands }
    /\ runs = 0
    /\ fs = Fresh
    /\ InitCommon

(***************************************************************************)
(* The script, statement by statement.                                     *)
(***************************************************************************)
Crash(exc) == pc' = "Crashed" /\ error' = exc

\* line 36: sbt = where('sbt')
ResolveSbt ==
    /\ pc = "resolve_sbt"
    /\ IF where("sbt") = KeyError
       THEN Crash("KeyError") /\ UNCHANGED sbt
       ELSE sbt' = where("sbt") /\ pc' = "resolve_java" /\ UNCHANGED error
    /\ UNCHANGED <<environ, files, java, runs, fs, fs0, buildSbt, bench, n,
                   result, running, trace>>

\* line 37: java = where('java')
ResolveJava ==
    /\ pc = "resolve_java"
    /\ IF where("java") = KeyError
       THEN Crash("KeyError") /\ UNCHANGED java
       ELSE java' = where("java") /\ pc' = "write_pin" /\ UNCHANGED error
    /\ UNCHANGED <<environ, files, sbt, runs, fs, fs0, buildSbt, bench, n,
                   result, running, trace>>

\* lines 71-72: build.sbt is overwritten with the version pin
WritePin ==
    /\ pc = "write_pin"
    /\ buildSbt' = PinLine
    /\ trace' = Append(trace, Ev("pin", <<"build.sbt">>, 0, <<>>))
    /\ pc' = "compile"
    /\ UNCHANGED <<environ, files, sbt, java, runs, fs, fs0, bench, n, result,
                   running, error>>

\* line 73, compile(): run(['sbt', 'compile']) starts the build
Compile ==
    /\ pc = "compile"
    /\ trace' = Append(trace, Ev("run", compileCmd, 0, <<>>))
    /\ IF Launchable(<<"sbt">>)
       THEN running' = running + 1 /\ pc' = "compile_wait" /\ UNCHANGED error
       ELSE Crash("OSError") /\ UNCHANGED running
    /\ UNCHANGED <<environ, files, sbt, java, runs, fs, fs0, buildSbt, bench,
                   n, result>>

\* check_output returns when sbt has ended, or raises on a non-zero status
CompileExit ==
    /\ pc = "compile_wait"
    /\ \E code \in ExitCodes :
        /\ running' = running - 1
        /\ trace' = Append(trace, Ev("exit", compileCmd, code, <<>>))
        /\ IF CheckOutputRaises(code)
           THEN Crash("CalledProcessError") /\ UNCHANGED bench
           ELSE pc' = "for_bench" /\ bench' = 1 /\ UNCHANGED error
    /\ UNCHANGED <<environ, files, sbt, java, runs, fs, fs0, buildSbt, n, result>>

\* line 74: for bench in benchmarks
ForBench ==
    /\ pc = "for_bench"
    /\ pc' = IF bench <= NumBench THEN "read_inputs" ELSE "Complete"
    /\ UNCHANGED <<environ, files, sbt, java, runs, fs, fs0, buildSbt, bench,
                   n, result, running, trace, error>>

\* lines 75-80: input/<bench> and output/<bench> are read; a missing file
\* raises IOError
ReadInputs ==
    /\ pc = "read_inputs"
    /\ \E ok \in BOOLEAN :
        IF ok THEN pc' = "for_run" /\ n' = 0 /\ UNCHANGED error
        ELSE Crash("IOError") /\ UNCHANGED n
    /\ UNCHANGED <<environ, files, sbt, java, runs, fs, fs0, buildSbt, bench,
                   result, running, trace>>

\* line 81: for n in xrange(runs)
ForRun ==
    /\ pc = "for_run"
    /\ IF InRange(n, runs)
       THEN pc' = "mkdir" /\ UNCHANGED bench
       ELSE pc' = "for_bench" /\ bench' = bench + 1
    /\ UNCHANGED <<environ, files, sbt, java, runs, fs, fs0, buildSbt, n,
                   result, running, trace, error>>

\* line 82: mkdir('results/{}/'.format(bench))
Mkdir ==
    /\ pc = "mkdir"
    /\ LET r == mkdir(fs, BenchDir(BenchAt(bench)))
       IN  /\ fs' = r.fs
           /\ IF r.raised THEN Crash("OSError")
              ELSE pc' = "launch" /\ UNCHANGED error
    /\ UNCHANGED <<environ, files, sbt, java, runs, fs0, buildSbt, bench, n,
                   result, running, trace>>

\* lines 83-87: the command is built and run(cmd) starts the benchmark
Launch ==
    /\ pc = "launch"
    /\ trace' = Append(trace, Ev("run", <<BenchAt(bench)>>, 0, <<>>))
    /\ IF Launchable(java)
       THEN running' = running + 1 /\ pc' = "wait" /\ UNCHANGED error
       ELSE Crash(IF java = None THEN "TypeError" ELSE "OSError")
            /\ UNCHANGED running
    /\ UNCHANGED <<environ, files, sbt, java, runs, fs, fs0, buildSbt, bench,
                   n, result>>

\* line 87: check_output returns the child's standard output, or raises.
\* (What a failing child printed travels in the exception and is dropped.)
Exit ==
    /\ pc = "wait"
    /\ \E code \in ExitCodes, out \in Payloads :
        /\ code # 0 => out = <<>>
        /\ running' = running - 1
        /\ trace' = Append(trace, Ev("exit", <<BenchAt(bench)>>, code, out))
        /\ IF CheckOutputRaises(code)
           THEN Crash("CalledProcessError") /\ UNCHANGED result
           ELSE result' = out /\ pc' = "open" /\ UNCHANGED error
    /\ UNCHANGED <<environ, files, sbt, java, runs, fs, fs0, buildSbt, bench, n>>

\* line 88: open('results/{}/{}'.format(bench, n), 'w+')
OpenResult ==
    /\ pc = "open"
    /\ fs' = OpenTruncate(fs, ResultFile(BenchAt(bench), n))
    /\ trace' = Append(trace, Ev("open", ResultFile(BenchAt(bench), n), 0, <<>>))
    /\ pc' = "write"
    /\ UNCHANGED <<environ, files, sbt, java, runs, fs0, buildSbt, bench, n,
                   result, running, error>>

\* line 89: resultfile.write(result) and the close.  The write may stop
\* after k < len(result) bytes (a full disk), raising IOError.
WriteResult ==
    /\ pc = "write"
    /\ \E k \in 0..Len(result) :
        LET path == ResultFile(BenchAt(bench), n)
        IN  /\ fs' = [fs EXCEPT ![path] =
                         File(WriteAt(fs[path].data, SubSeq(result, 1, k)))]
            /\ IF k = Len(result)
               THEN /\ trace' = Append(trace, Ev("write", path, 0, result))
                    /\ n' = n + 1
                    /\ pc' = "for_run"
                    /\ UNCHANGED error
               ELSE Crash("IOError") /\ UNCHANGED <<trace, n>>
    /\ UNCHANGED <<environ, files, sbt, java, runs, fs0, buildSbt, bench,
                   result, running>>

Next ==
    \/ ResolveSbt
    \/ ResolveJava
    \/ WritePin
    \/ Compile
    \/ CompileExit
    \/ ForBench
    \/ ReadInputs
    \/ ForRun
    \/ Mkdir
    \/ Launch
    \/ Exit
    \/ OpenResult
    \/ WriteResult

Spec == Init /\ [][Next]_vars

NextWhere ==
    \/ ResolveSbt
    \/ ResolveJava

SpecWhere == InitWhere /\ [][NextWhere]_vars

(***************************************************************************)
(* Reading the trace.                                                      *)
(***************************************************************************)
Pos == 1..Len(trace)

\* run(cmd) at position i started a process (Popen did not raise)
Launched(i) ==
    /\ trace[i].op = "run"
    /\ IF i < Len(trace) THEN trace[i + 1].op = "exit" ELSE running > 0

\* the positions at which a process for benchmark b was started
LaunchPos(b) == { i \in Pos : trace[i].arg = <<b>> /\ Launched(i) }

\* the k-th (from 0) launch of b
NthLaunch(b, k) ==
    CHOOSE i \in LaunchPos(b) : Cardinality({ j \in LaunchPos(b) : j < i }) = k

BenchRunPos == { i \in Pos : trace[i].op = "run" /\ trace[i].arg # compileCmd }
WritePos == { i \in Pos : trace[i].op = "write" }
OpenPos == { i \in Pos : trace[i].op = "open" }
WrittenPaths == { trace[i].arg : i \in WritePos }
OpenedPaths == { trace[i].arg : i \in OpenPos }
LastWrite(p) ==
    CHOOSE i \in WritePos :
        trace[i].arg = p /\ \A j \in WritePos : trace[j].arg = p => j <= i

BuildFailed == \E i \in Pos :
    trace[i].op = "exit" /\ trace[i].arg = compileCmd /\ trace[i].code # 0

\* a benchmark process that exited non-zero, or a run(cmd) that started none
RunFailedAt(i) ==
    \/ trace[i].op = "exit" /\ trace[i].arg # compileCmd /\ trace[i].code # 0
    \/ trace[i].op = "run" /\ trace[i].arg # compileCmd /\ ~Launched(i)

(***************************************************************************)
(* C1.  If the build command exits non-zero the harness aborts before any  *)
(* benchmark is processed: no benchmark process is launched, no result     *)
(* file is opened or written, and the results tree is what it was when     *)
(* the harness started.                                                    *)
(***************************************************************************)
C1_BuildFailureAborts ==
    BuildFailed =>
        /\ pc = "Crashed"
        /\ error = "CalledProcessError"
        /\ BenchRunPos = {}
        /\ OpenPos = {} /\ WritePos = {}
        /\ running = 0
        /\ fs = fs0

C1_Witness == BuildFailed /\ pc = "Crashed" /\ runs > 0 /\ fs0 = Fresh

(***************************************************************************)
(* C2.  If where('java') or where('sbt') returns None the harness aborts   *)
(* at once: build.sbt is not written, the build command is never invoked   *)
(* and no benchmark process is launched.                                   *)
(***************************************************************************)
C2_UnresolvedToolAbortsAtInit ==
    (sbt = None \/ java = None) =>
        /\ buildSbt = <<>>
        /\ \A i \in Pos : trace[i].op \notin {"pin", "run"}

(***************************************************************************)
(* C3.  On completion (the build succeeded and every benchmark process     *)
(* exited 0), for every benchmark exactly runs processes were launched,    *)
(* the files written under results/<benchmark>/ are exactly those named    *)
(* 0..runs-1, each written once, and file k holds the standard output of   *)
(* the k-th launch of that benchmark.                                      *)
(***************************************************************************)
C3_CompleteRunStoresEveryOutput ==
    (pc = "Complete" /\ \A i \in Pos : trace[i].op = "exit" => trace[i].code = 0) =>
        \A b \in BenchSet :
            /\ Cardinality(LaunchPos(b)) = runs
            /\ { p \in WrittenPaths : p[2] = b }
                   = { <<"results", b, Str(k)>> : k \in 0..(runs - 1) }
            /\ Cardinality({ i \in WritePos : trace[i].arg[2] = b }) = runs
            /\ \A k \in 0..(runs - 1) :
                   fs[<<"results", b, Str(k)>>] = File(trace[NthLaunch(b, k) + 1].out)

C3_Witness ==
    /\ pc = "Complete"
    /\ runs = 2
    /\ fs[<<"results", benchmarks[1], "0">>] = File(<<1, 2>>)
    /\ fs[<<"results", benchmarks[1], "1">>] = File(<<>>)
    /\ fs[<<"results", benchmarks[2], "1">>] = File(<<1, 2>>)

(***************************************************************************)
(* C4, as claimed.  A repetition whose process exits non-zero or fails to  *)
(* launch does not crash the harness.                                      *)
(***************************************************************************)
C4_RunFailureIsCaught ==
    (\E i \in Pos : RunFailedAt(i)) => pc # "Crashed"

(***************************************************************************)
(* C4, amended.  A repetition whose process exits non-zero or fails to     *)
(* launch ends the harness at once with the uncaught exception: the        *)
(* failure is the last thing the harness did, no process is left running,  *)
(* the result file of that (benchmark, index) is neither opened nor        *)
(* written and is what it was at the start, and every result file written  *)
(* before holds what was written to it.                                    *)
(***************************************************************************)
C4_RunFailureEndsHarness ==
    \A i \in Pos : RunFailedAt(i) =>
        LET b == trace[i].arg[1]
            slot == <<"results", b, Str(Cardinality({ j \in WritePos : trace[j].arg[2] = b }))>>
        IN  /\ pc = "Crashed"
            /\ error \in {"CalledProcessError", "TypeError", "OSError"}
            /\ i = Len(trace)
            /\ running = 0
            /\ slot \notin OpenedPaths
            /\ slot \in Paths => fs[slot] = fs0[slot]
            /\ \A j \in WritePos : fs[trace[j].arg] = File(trace[j].out)

C4_Witness ==
    /\ \E i \in Pos : RunFailedAt(i) /\ trace[i].op = "exit"
    /\ WritePos # {}
    /\ pc = "Crashed"

(***************************************************************************)
(* C5.  In every state every result file is either as it was when the      *)
(* harness started (absent, or the complete result of an earlier run) or   *)
(* holds the complete standard output some successful repetition of its    *)
(* benchmark produced: never an empty, truncated or partly written file.   *)
(***************************************************************************)
C5_NoPartialResultFile ==
    \A p \in Slots :
        \/ fs[p] = fs0[p]
        \/ /\ fs[p].kind = "file"
           /\ \E i \in Pos : /\ trace[i].op = "exit"
                             /\ trace[i].arg = <<p[2]>>
                             /\ trace[i].code = 0
                             /\ trace[i].out = fs[p].data

(***************************************************************************)
(* C6.  A write to results/<benchmark>/<index> is last-writer-wins: once   *)
(* written, the file holds exactly the payload written last, whatever it   *)
(* held before, and a result file this run has not opened is what it was   *)
(* at the start.  (Writing the payload a file already holds therefore      *)
(* leaves the tree as it was.)                                             *)
(***************************************************************************)
C6_LastWriterWins ==
    /\ \A i \in Pos :
           (trace[i].op = "write" /\ LastWrite(trace[i].arg) = i)
               => fs[trace[i].arg] = File(trace[i].out)
    /\ \A p \in Slots :
           fs[p] # fs0[p] => \E i \in Pos : trace[i].op = "open" /\ trace[i].arg = p

C6_Witness ==
    /\ fs0 = Earlier(<<1, 2>>)
    /\ \E p \in WrittenPaths : fs[p] = File(<<>>)
    /\ \E p \in WrittenPaths : fs[p] = fs0[p]
    /\ \E p \in Slots : p \notin OpenedPaths

(***************************************************************************)
(* C7.  mkdir(path) succeeds and changes nothing when path is a            *)
(* directory; creates path and its missing ancestors when it does not      *)
(* exist; and raises, creating nothing, when path or an ancestor is a      *)
(* regular file, after which the harness does nothing more (no result      *)
(* file is written).                                                       *)
(***************************************************************************)
C7_MkdirStep ==
    pc = "mkdir" =>
        LET p == <<"results", benchmarks[bench]>>
        IN  IF fs[p].kind = "dir"
            THEN fs' = fs /\ pc' = "launch"
            ELSE IF fs[p].kind = "file" \/ fs[ResultsRoot].kind = "file"
            THEN fs' = fs /\ pc' = "Crashed" /\ error' = "OSError"
            ELSE /\ fs' = [q \in Paths |-> IF q \in {p, ResultsRoot} THEN Dir ELSE fs[q]]
                 /\ pc' = "launch"

C7_MkdirContract == [][C7_MkdirStep /\ pc # "Crashed"]_vars

C7_Witness ==
    /\ fs0 = Fresh
    /\ pc = "launch"
    /\ fs[ResultsRoot] = Dir
    /\ fs[<<"results", benchmarks[1]>>] = Dir

C7_WitnessExisting ==
    pc = "launch" /\ fs0 \in { Earlier(d) : d \in Payloads } /\ fs = fs0

C7_WitnessConflict ==
    /\ pc = "Crashed" /\ error = "OSError" /\ fs = fs0 /\ WritePos = {}
    /\ \E b \in BenchSet : fs[<<"results", b>>].kind = "file"

(***************************************************************************)
(* C8.  where(name) returns name when name is an existing regular file;    *)
(* otherwise directory/name for the first directory of the search path     *)
(* holding that file; otherwise, an empty or absent PATH included, None.   *)
(* It never raises.                                                        *)
(***************************************************************************)
SearchDirs ==
    IF ~environ.set \/ environ.value = <<>> THEN <<>>
    ELSE Split(environ.value, pathsep)

WhereContract(cmd) ==
    IF <<cmd>> \in files THEN <<cmd>>
    ELSE LET hits == { i \in 1..Len(SearchDirs) : Join(SearchDirs[i], cmd) \in files }
         IN  IF hits = {} THEN None
             ELSE Join(SearchDirs[CHOOSE i \in hits : \A j \in hits : i <= j], cmd)

C8_WhereNeverRaises ==
    /\ error # "KeyError"
    /\ pc # "resolve_sbt" => sbt = WhereContract("sbt")
    /\ pc \notin {"resolve_sbt", "resolve_java"} => java = WhereContract("java")

\* what does hold: with PATH set, where meets the contract and never raises
WhereWithPathSet == environ.set => C8_WhereNeverRaises

(***************************************************************************)
(* C9.  With a repetition count of 0 no benchmark process is launched, no  *)
(* directory is created and no result file is opened or written, and the   *)
(* loop over the repetitions hands over to the next benchmark.             *)
(***************************************************************************)
C9_ZeroRuns ==
    /\ [](runs = 0 => /\ BenchRunPos = {}
                      /\ OpenPos = {} /\ WritePos = {}
                      /\ fs = fs0)
    /\ [][(runs = 0 /\ pc = "for_run") => (pc' = "for_bench" /\ bench' = bench + 1)]_vars

C9_Witness == runs = 0 /\ pc = "Complete" /\ bench = NumBench + 1 /\ fs0 = Fresh

(***************************************************************************)
(* C10.  Execution is sequential and ordered: the pin is written, then     *)
(* the one build runs and ends, then the benchmarks in declaration order,  *)
(* and for each the repetitions 0..runs-1 in order, each one launched,     *)
(* ended, and its result file opened and written before the next starts.   *)
(* So what the harness has done is always a prefix of that one sequence,   *)
(* at most one child process is alive, and it is the one started last.     *)
(***************************************************************************)
CanonLen == 3 + 4 * NumBench * runs

CanonAt(j) ==
    IF j = 1 THEN <<"pin", <<"build.sbt">>>>
    ELSE IF j = 2 THEN <<"run", compileCmd>>
    ELSE IF j = 3 THEN <<"exit", compileCmd>>
    ELSE LET rep == (j - 4) \div 4
             b == benchmarks[(rep \div runs) + 1]
             k == rep % runs
             step == (j - 4) % 4
         IN  IF step = 0 THEN <<"run", <<b>>>>
             ELSE IF step = 1 THEN <<"exit", <<b>>>>
             ELSE IF step = 2 THEN <<"open", <<"results", b, Str(k)>>>>
             ELSE <<"write", <<"results", b, Str(k)>>>>

C10_SequentialOrder ==
    /\ Len(trace) <= CanonLen
    /\ \A j \in Pos : <<trace[j].op, trace[j].arg>> = CanonAt(j)
    /\ running \in {0, 1}
    /\ running = 1 => trace[Len(trace)].op = "run"
    /\ Len(trace) >= 1 => buildSbt = PinLine

C10_Witness ==
    /\ runs = 2
    /\ Len(trace) = CanonLen
    /\ pc = "Complete"

====
